---- MODULE Spec2Model ----
(***************************************************************************)
(* Failure propagation and aggregation of allure_pytest_ext.plugin:        *)
(* _PropagatingStep (allure.step with propagate / raise_on_parent),        *)
(* _AggregateStep (allure.aggregate_step) and AggregateError, run by the    *)
(* threads of a test run: each thread's body enters and exits scopes,      *)
(* calls helper functions, raises errors and catches them.  The variables  *)
(* blocks .. last hold the state of the running thread; the state of the   *)
(* threads that are not running is parked, and a context switch swaps the  *)
(* two.  Spec is the run of one thread, SpecThreads the run of several.    *)
(*                                                                         *)
(* The interpreter side that the plugin relies on is modelled as the       *)
(* plugin uses it: a frame has one local tracer slot (f_trace), the thread *)
(* has one global tracer (sys.settrace), an "exception" event is delivered *)
(* to the local tracer of the frame an error is raised in or propagates    *)
(* into, and the value a local tracer returns becomes the frame's tracer.  *)
(***************************************************************************)
EXTENDS Integers, Sequences, FiniteSets, TLC

VARIABLES
    objs,       \* every scope object created so far, by id (creation order)
    blocks,     \* ids of the open with-blocks, innermost last
    aggStack,   \* _thread_local.aggregate_stack: _AggregateState records
    propStack,  \* _thread_local.propagate_stack: ids of propagating steps
    ftrace,     \* frame -> owner of the frame's local tracer (0: None)
    gtrace,     \* owner of the global tracer stub set by sys.settrace (0: None)
    depth,      \* index of the running frame (1: the test function)
    pending,    \* the error that is unwinding, NoErr when none
    nerr,       \* number of errors the body has raised so far
    ncalls,     \* number of helper calls the body has made so far
    last,       \* id of the scope whose __exit__ has just run, else 0
    cur,        \* the running thread
    parked,     \* thread -> the thread-local state of a thread that is not running
    logEnabled, \* _log_steps_enabled
    logBroken,  \* the module loggers raise on every call
    log,        \* the step log lines emitted so far
    host        \* the installed allure-pytest, the override variable, and what
                \* _monkey_patch_allure has done

logVars == <<logEnabled, logBroken, log>>

vars == <<objs, blocks, aggStack, propStack, ftrace, gtrace, depth, pending, nerr, ncalls, last,
          cur, parked, logEnabled, logBroken, log, host>>

(* ------------------------------ bounds --------------------------------- *)
MaxScopes == 3
MaxErrs   == 2
MaxCalls  == 1
MaxThreads == 2
\* the run of several threads raises MaxThreadErrs errors in all
MaxThreadErrs == 1
MaxLogScopes == 2
MaxLogErrs == 1
MaxExits == 2
MaxManualErrs == 1
MaxInstalls == 2

(* ------------------------------ errors --------------------------------- *)
\* an error object: its type, its text, the errors it carries, and the
\* thread whose frames its traceback belongs to
NoErr == [kind |-> "None", msg |-> "", causes |-> <<>>, origin |-> 0]

RealKinds == {"ValueError"}
ControlFlowKinds == {"StopIteration"}
Kinds == RealKinds \cup ControlFlowKinds

\* the n-th error the body raises carries the message "e<n>"
BodyErr(k, n) == [kind |-> k, msg |-> "e" \o ToString(n), causes |-> <<>>, origin |-> cur]

\* issubclass(exc_type, (StopIteration, GeneratorExit))
IsControlFlow(e) == e.kind \in ControlFlowKinds

\* str(e)
Str(e) == e.msg

\* AssertionError(str(ev)): the generic failure handed to the reporter
Generic(e) == [kind |-> "AssertionError", msg |-> Str(e), causes |-> <<>>, origin |-> e.origin]

Title(id) == "t" \o ToString(id)

\* faulty variant of JoinCauses: the newest cause is rendered first
RECURSIVE JoinCausesNewestFirst(_)
JoinCausesNewestFirst(es) ==
    IF es = <<>> THEN ""
    ELSE IF Len(es) = 1 THEN es[1].kind \o ": " \o Str(es[1])
    ELSE JoinCausesNewestFirst(Tail(es)) \o ", " \o es[1].kind \o ": " \o Str(es[1])

RECURSIVE JoinCauses(_)
JoinCauses(es) ==
    IF es = <<>> THEN ""
    ELSE IF Len(es) = 1 THEN es[1].kind \o ": " \o Str(es[1])
    ELSE es[1].kind \o ": " \o Str(es[1]) \o ", " \o JoinCauses(Tail(es))

AggregateError(title, exceptions) ==
    [kind   |-> "AggregateError",
     msg    |-> ToString(Len(exceptions)) \o " exception(s) occurred during '"
                \o title \o "': " \o JoinCauses(exceptions),
     causes |-> exceptions, origin |-> cur]

(* ------------------------------ helpers -------------------------------- *)
Last(s) == s[Len(s)]
Front(s) == SubSeq(s, 1, Len(s) - 1)
InSeq(x, s) == \E i \in 1..Len(s) : s[i] = x
Without(s, x) == SelectSeq(s, LAMBDA y : y # x)

(* ------------------------------ step logging -------------------------- *)
\* f"[STEP START] {title!r}" and f"[STEP END] {title!r} - PASS" / "- FAIL"
StartLine(id) == "[STEP START] '" \o Title(id) \o "'"
EndLine(id, verdict) == "[STEP END] '" \o Title(id) \o "' - " \o verdict

\* what a failing logger raises
LoggerError == [kind |-> "LoggerError", msg |-> "log", causes |-> <<>>, origin |-> 0]

\* faulty variant of LoggerLog: the line is lost
LoggerLogDropsLine(lg, broken, line) == [log |-> lg, raised |-> broken]

\* logger.log(level, message): the line is emitted, or the call raises
LoggerLog(lg, broken, line) ==
    [log |-> IF broken THEN lg ELSE Append(lg, line), raised |-> broken]

\* faulty variant of MaybeLog: the toggle is not looked at
MaybeLogAlways(lg, enabled, broken, line) ==
    [log |-> LoggerLog(lg, broken, line).log, raised |-> FALSE]

\* faulty variant of MaybeLog: a failure of the logger is not swallowed
MaybeLogUnguarded(lg, enabled, broken, line) ==
    IF ~enabled THEN [log |-> lg, raised |-> FALSE] ELSE LoggerLog(lg, broken, line)

\* _maybe_log: nothing when logging is off, else the logger is called and
\* whatever it raises is swallowed
MaybeLog(lg, enabled, broken, line) ==
    IF ~enabled THEN [log |-> lg, raised |-> FALSE]
    ELSE [log |-> LoggerLog(lg, broken, line).log, raised |-> FALSE]

\* what leaves a handler after its _maybe_log call: an error that left
\* _maybe_log would leave the handler in place of the handler's own outcome
AfterLog(out, lr) == IF lr.raised THEN LoggerError ELSE out

(* --------------------------- scope objects ----------------------------- *)
\* faulty variant of NewScope: a new scope starts with what its parent has observed
NewScopeInheritsObserved(k, p, r, f, prevL, prevG, par, enc) ==
    [kind |-> k, propagate |-> p, rop |-> r,
     caught |-> NoErr, observed |-> IF par # 0 THEN objs[par].observed ELSE NoErr,
     frame |-> f, prevLocal |-> prevL, prevGlobal |-> prevG, installed |-> p,
     status |-> "OPEN", report |-> NoErr, raised |-> NoErr, active |-> NoErr,
     exc |-> NoErr, handled |-> NoErr, parent |-> par, encl |-> enc,
     born |-> nerr, thread |-> cur, reports |-> 0, inner |-> host.original]

\* faulty variant of NewScope: the captured slots are shared by all scopes,
\* a new scope starts with what the scope that exited last had captured
NewScopeSharesCaptured(k, p, r, f, prevL, prevG, par, enc) ==
    [kind |-> k, propagate |-> p, rop |-> r,
     caught |-> IF last # 0 THEN objs[last].caught ELSE NoErr,
     observed |-> IF last # 0 THEN objs[last].observed ELSE NoErr,
     frame |-> f, prevLocal |-> prevL, prevGlobal |-> prevG, installed |-> p,
     status |-> "OPEN", report |-> NoErr, raised |-> NoErr, active |-> NoErr,
     exc |-> NoErr, handled |-> NoErr, parent |-> par, encl |-> enc,
     born |-> nerr, thread |-> cur, reports |-> 0, inner |-> host.original]

\* _PropagatingStep.__init__ / _AggregateStep.__init__, plus what __enter__
\* stores.  status, report, raised, active and exc are written by __exit__:
\* report is what the reporter's __exit__ receives, raised is what leaves
\* __exit__, exc is the error __exit__ was called with.  handled, parent and
\* encl record the body's history: the first real error a try/except in the
\* scope's body caught, the innermost block and the innermost aggregation
\* that were open at entry, the number of errors raised before entry; thread
\* is the thread that created the scope, reports counts the calls of the
\* reporter's __exit__, inner is the step primitive the scope wraps.
NewScope(k, p, r, f, prevL, prevG, par, enc) ==
    [kind |-> k, propagate |-> p, rop |-> r,
     caught |-> NoErr, observed |-> NoErr,
     frame |-> f, prevLocal |-> prevL, prevGlobal |-> prevG, installed |-> p,
     status |-> "OPEN", report |-> NoErr, raised |-> NoErr, active |-> NoErr,
     exc |-> NoErr, handled |-> NoErr, parent |-> par, encl |-> enc,
     born |-> nerr, thread |-> cur, reports |-> 0, inner |-> host.original]

\* a scope object nobody refers to any more
Gone == [NewScope("gone", FALSE, FALSE, 0, 0, 0, 0, 0) EXCEPT
            !.status = "GONE", !.born = 0, !.thread = 0, !.inner = "None"]

\* The with statement drops its scope object when the block ends.  The
\* model keeps the closed record of a scope while the scope's parent or
\* its enclosing aggregation is still open or is the scope that exited
\* last, so that a scope's exit can be compared with what happened in it.
\* The scope objects of the other threads are theirs to drop.
Forget(o, open, m) ==
    [i \in DOMAIN o |->
        IF \/ o[i].thread # cur
           \/ InSeq(i, open) \/ i = m
           \/ InSeq(o[i].parent, open) \/ o[i].parent = m
           \/ InSeq(o[i].encl, open) \/ o[i].encl = m
        THEN o[i] ELSE Gone]

\* faulty variant of NewAggState: the new list starts as the enclosing aggregation's
NewAggStateSharedList(id) ==
    [id |-> id, title |-> Title(id),
     exceptions |-> IF aggStack # <<>> THEN Last(aggStack).exceptions ELSE <<>>]

NewAggState(id) == [id |-> id, title |-> Title(id), exceptions |-> <<>>]

Innermost == IF blocks = <<>> THEN 0 ELSE Last(blocks)
InnermostAgg == IF aggStack = <<>> THEN 0 ELSE Last(aggStack).id
\* the innermost open block, when it was entered from the running frame
BlockHere == IF blocks # <<>> /\ objs[Last(blocks)].frame = depth THEN Last(blocks) ELSE 0

(* ------------------------------ the tracer ----------------------------- *)
\* faulty variant of Capture: the broadcast reaches every open scope, propagating or not
CaptureAllOpen(o, ps, s, e) ==
    LET o1 == IF o[s].caught = NoErr THEN [o EXCEPT ![s].caught = e] ELSE o
    IN  [i \in DOMAIN o1 |->
            IF InSeq(i, blocks) /\ o1[i].observed = NoErr
            THEN [o1[i] EXCEPT !.observed = e] ELSE o1[i]]

\* faulty variant of Capture: the broadcast goes over one list of open
\* propagating steps that all threads share
CaptureOnEveryThread(o, ps, s, e) ==
    LET o1 == IF o[s].caught = NoErr THEN [o EXCEPT ![s].caught = e] ELSE o
    IN  [i \in DOMAIN o1 |->
            IF /\ \/ InSeq(i, ps)
                  \/ \E t \in DOMAIN parked : InSeq(i, parked[t].propStack)
               /\ o1[i].observed = NoErr
            THEN [o1[i] EXCEPT !.observed = e] ELSE o1[i]]

\* faulty variant of Capture: the step keeps the error to itself
CaptureSelfOnly(o, ps, s, e) ==
    IF o[s].caught = NoErr THEN [o EXCEPT ![s].caught = e] ELSE o

\* lines 135-143: keep the first meaningful error, broadcast it to every
\* open propagating step that has observed none
Capture(o, ps, s, e) ==
    LET o1 == IF o[s].caught = NoErr THEN [o EXCEPT ![s].caught = e] ELSE o
    IN  [i \in DOMAIN o1 |->
            IF InSeq(i, ps) /\ o1[i].observed = NoErr
            THEN [o1[i] EXCEPT !.observed = e] ELSE o1[i]]

\* _tracer for an "exception" event: capture unless it is a control-flow
\* sentinel, then chain to the tracer that was installed before
RECURSIVE Tracer(_, _, _, _)
Tracer(o, ps, s, e) ==
    LET o1 == IF IsControlFlow(e) THEN o ELSE Capture(o, ps, s, e)
    IN  IF o[s].prevLocal # 0 THEN Tracer(o1, ps, o[s].prevLocal, e) ELSE o1

\* what _tracer returns: the previous tracer's result when it is not None,
\* else itself
RECURSIVE TracerResult(_, _)
TracerResult(o, s) ==
    IF o[s].prevLocal # 0 THEN TracerResult(o, o[s].prevLocal) ELSE s

\* an "exception" event in frame f: the frame's local tracer runs when the
\* thread traces, and its result becomes the frame's local tracer
Deliver(o, ft, gt, ps, f, e) ==
    IF gt = 0 \/ ft[f] = 0
    THEN [objs |-> o, ftrace |-> ft]
    ELSE [objs |-> Tracer(o, ps, ft[f], e),
          ftrace |-> [ft EXCEPT ![f] = TracerResult(o, ft[f])]]

(* ------------------------------ step scope ----------------------------- *)
\* faulty variant of EnterStep: every step, propagating or not, goes on the
\* propagating stack
EnterStepAlwaysOnStack(p, r) ==
    /\ pending = NoErr
    /\ Len(objs) < MaxScopes
    /\ LET id == Len(objs) + 1
           lr == MaybeLog(log, logEnabled, logBroken, StartLine(id))
       IN  /\ log' = lr.log
           /\ pending' = AfterLog(NoErr, lr)
           /\ objs' = Append(objs,
                  NewScope("step", p, r, depth,
                           IF p THEN ftrace[depth] ELSE 0,
                           IF p THEN gtrace ELSE 0,
                           Innermost, InnermostAgg))
           /\ blocks' = Append(blocks, id)
           /\ propStack' = Append(propStack, id)
           /\ ftrace' = IF p THEN [ftrace EXCEPT ![depth] = id] ELSE ftrace
           /\ gtrace' = IF p THEN id ELSE gtrace
    /\ last' = 0
    /\ UNCHANGED <<aggStack, depth, nerr, ncalls, cur, parked, logEnabled, logBroken, host>>

\* _PropagatingStep.__enter__
EnterStep(p, r) ==
    /\ pending = NoErr
    /\ Len(objs) < MaxScopes
    /\ LET id == Len(objs) + 1
           lr == MaybeLog(log, logEnabled, logBroken, StartLine(id))
       IN  /\ log' = lr.log
           /\ pending' = AfterLog(NoErr, lr)
           /\ objs' = Append(objs,
                  NewScope("step", p, r, depth,
                           IF p THEN ftrace[depth] ELSE 0,
                           IF p THEN gtrace ELSE 0,
                           Innermost, InnermostAgg))
           /\ blocks' = Append(blocks, id)
           /\ propStack' = IF p THEN Append(propStack, id) ELSE propStack
           /\ ftrace' = IF p THEN [ftrace EXCEPT ![depth] = id] ELSE ftrace
           /\ gtrace' = IF p THEN id ELSE gtrace
    /\ last' = 0
    /\ UNCHANGED <<aggStack, depth, nerr, ncalls, cur, parked, logEnabled, logBroken, host>>

\* faulty variant of PopSelf: only the top entry is ever removed
PopSelfTopOnly(stack, s) ==
    IF stack # <<>> /\ Last(stack) = s THEN Front(stack) ELSE stack

\* lines 197-205: pop self, or remove it from wherever it is
PopSelf(stack, s) ==
    IF stack # <<>> /\ Last(stack) = s THEN Front(stack)
    ELSE IF InSeq(s, stack)
         THEN LET i == CHOOSE j \in 1..Len(stack) :
                           stack[j] = s /\ \A k \in 1..(j-1) : stack[k] # s
              IN  SubSeq(stack, 1, i-1) \o SubSeq(stack, i+1, Len(stack))
         ELSE stack

\* faulty variant of ActiveExc: only an escaping error counts
ActiveExcEscapedOnly(me, exc) == exc

\* faulty variant of ActiveExc: a captured error is preferred to the escaping one
ActiveExcCapturedFirst(me, exc) ==
    IF me.caught # NoErr THEN me.caught
    ELSE IF me.observed # NoErr THEN me.observed ELSE exc

\* lines 219-224
ActiveExc(me, exc) ==
    IF exc # NoErr THEN exc
    ELSE IF me.caught # NoErr THEN me.caught ELSE me.observed

\* faulty variant of ExitBroadcast: every open scope is told, propagating or not
ExitBroadcastAllOpen(o, ps, s, e) ==
    [i \in DOMAIN o |->
        IF InSeq(i, blocks) /\ i # s /\ o[i].observed = NoErr
        THEN [o[i] EXCEPT !.observed = e] ELSE o[i]]

\* lines 242-245: tell the other open propagating steps
ExitBroadcast(o, ps, s, e) ==
    [i \in DOMAIN o |->
        IF InSeq(i, ps) /\ i # s /\ o[i].observed = NoErr
        THEN [o[i] EXCEPT !.observed = e] ELSE o[i]]

\* faulty variant of InAggregate: only a scope entered directly in the
\* aggregation's body counts as aggregated
InAggregateDirectChildOnly(aggs) ==
    aggs # <<>> /\ BlockHere # 0 /\ objs[BlockHere].parent = Last(aggs).id

\* faulty variant of InAggregate: only an escaping error is suppressed
InAggregateEscapedOnly(aggs) == aggs # <<>> /\ pending # NoErr

\* lines 216-217: is an aggregation open on this thread
InAggregate(aggs) == aggs # <<>>

\* faulty variant of Collect: a combined error is unpacked into its causes
CollectUnpacked(list, e) == IF e.causes # <<>> THEN list \o e.causes ELSE Append(list, e)

\* faulty variant of Collect: an error already in the list is not added again
CollectOnce(list, e) == IF InSeq(e, list) THEN list ELSE Append(list, e)

\* line 255: collect the original error
Collect(list, e) == Append(list, e)

\* faulty variant of StepRaises: only a step inside another scope raises
StepRaisesOnlyNested(me, exc, active) ==
    IF exc # NoErr THEN exc
    ELSE IF me.propagate /\ me.rop /\ me.parent # 0 THEN active
    ELSE NoErr

\* faulty variant of StepRaises: every propagating step raises what it captured
StepRaisesWhenPropagate(me, exc, active) ==
    IF exc # NoErr THEN exc
    ELSE IF me.propagate THEN active
    ELSE NoErr

\* faulty variant of StepRaises: a captured error is never raised
StepRaisesEscapedOnly(me, exc, active) == exc

\* lines 263-272, outside an aggregation: what leaves __exit__
StepRaises(me, exc, active) ==
    IF exc # NoErr THEN exc
    ELSE IF me.propagate /\ me.rop THEN active
    ELSE NoErr

\* faulty variant of StepReport: the original error is reported everywhere
StepReportOriginal(active, inAgg) == active

\* faulty variant of StepReport: the generic failure is reported everywhere
StepReportGeneric(active, inAgg) == Generic(active)

\* lines 251-252 and 259: what the reporter's __exit__ receives
StepReport(active, inAgg) == IF inAgg THEN Generic(active) ELSE active

\* faulty variant of ReporterExits: a suppressed failure is not reported
ReporterExitsNotWhenSuppressed(active, inAgg) ==
    IF active = NoErr THEN 1 ELSE IF inAgg THEN 0 ELSE 1

\* lines 229, 252, 259: the calls of the reporter's __exit__ on the path
\* taken by the step's __exit__
ReporterExits(active, inAgg) ==
    IF active = NoErr THEN 1 ELSE IF inAgg THEN 1 ELSE 1

\* the reporter marks a step failed when it is closed with an error
StatusOf(report) == IF report = NoErr THEN "PASSED" ELSE "FAILED"

\* faulty variant of RestoreLocal: the step's own tracer stays on the frame
RestoreLocalKeepsOwn(ft, me) == ft

\* lines 207-208: put back the frame's previous local tracer
RestoreLocal(ft, me) ==
    IF me.propagate THEN [ft EXCEPT ![me.frame] = me.prevLocal] ELSE ft

\* lines 210-214: put back the previous global tracer
RestoreGlobal(gt, me) ==
    IF me.propagate /\ me.installed THEN me.prevGlobal ELSE gt

\* _PropagatingStep.__exit__ of step s, with the error that is unwinding
ExitStepOf(s) ==
    /\ LET me      == objs[s]
           ps1     == IF me.propagate THEN PopSelf(propStack, s) ELSE propStack
           ft1     == RestoreLocal(ftrace, me)
           gt1     == RestoreGlobal(gtrace, me)
           inAgg   == InAggregate(aggStack)
           active  == ActiveExc(me, pending)
           o1      == IF active = NoErr THEN objs ELSE ExitBroadcast(objs, ps1, s, active)
           report  == IF active = NoErr THEN NoErr ELSE StepReport(active, inAgg)
           lr      == MaybeLog(log, logEnabled, logBroken,
                                EndLine(s, IF active = NoErr THEN "PASS" ELSE "FAIL"))
           out     == AfterLog(IF active = NoErr THEN pending
                               ELSE IF inAgg THEN NoErr
                               ELSE StepRaises(me, pending, active), lr)
           o2      == [o1 EXCEPT ![s].status = StatusOf(report), ![s].report = report,
                                 ![s].raised = out, ![s].active = active,
                                 ![s].exc = pending, ![s].installed = FALSE,
                                 ![s].reports = @ + ReporterExits(active, inAgg)]
           \* an error raised by __exit__ itself enters the caller's frame
           ev      == IF out # NoErr /\ pending = NoErr
                      THEN Deliver(o2, ft1, gt1, ps1, depth, out)
                      ELSE [objs |-> o2, ftrace |-> ft1]
       IN  /\ objs' = Forget(ev.objs, Without(blocks, s), s)
           /\ ftrace' = ev.ftrace
           /\ gtrace' = gt1
           /\ propStack' = ps1
           /\ blocks' = Without(blocks, s)
           /\ log' = lr.log
           /\ aggStack' = IF active # NoErr /\ inAgg /\ ~lr.raised
                          THEN [aggStack EXCEPT ![Len(aggStack)].exceptions = Collect(@, active)]
                          ELSE aggStack
           /\ pending' = out
           /\ last' = s
    /\ UNCHANGED <<depth, nerr, ncalls, cur, parked, logEnabled, logBroken, host>>

\* the with statement of a step ends: __exit__ of the innermost block
ExitStep ==
    /\ BlockHere # 0 /\ objs[BlockHere].kind = "step"
    /\ ExitStepOf(BlockHere)

\* the body calls s.__exit__(None, None, None) itself, on a step that is not
\* the innermost block: one entered by hand and left out of order, or one
\* that has been left already
ManualExit(s) ==
    /\ pending = NoErr
    /\ s \in DOMAIN objs /\ s # BlockHere
    /\ objs[s].kind = "step" /\ objs[s].thread = cur /\ objs[s].frame = depth
    /\ objs[s].reports < MaxExits
    /\ ExitStepOf(s)

(* --------------------------- aggregation scope ------------------------- *)
\* _AggregateStep.__enter__
EnterAggregate ==
    /\ pending = NoErr
    /\ Len(objs) < MaxScopes
    /\ LET id == Len(objs) + 1
           lr == MaybeLog(log, logEnabled, logBroken, StartLine(id))
       IN  /\ log' = lr.log
           /\ pending' = AfterLog(NoErr, lr)
           /\ objs' = Append(objs,
                  NewScope("agg", FALSE, FALSE, depth, 0, 0, Innermost, InnermostAgg))
           /\ blocks' = Append(blocks, id)
           /\ aggStack' = Append(aggStack, NewAggState(id))
    /\ last' = 0
    /\ UNCHANGED <<propStack, ftrace, gtrace, depth, nerr, ncalls, cur, parked, logEnabled, logBroken, host>>

\* faulty variant of Collected: the error of the body itself is left out
CollectedNestedOnly(state, exc) == state.exceptions

\* lines 305-307: a direct error of the body joins the collected list
Collected(state, exc) ==
    IF exc # NoErr THEN Append(state.exceptions, exc) ELSE state.exceptions

\* faulty variant of AggRaises: the combined error is never raised
AggRaisesNever(inParent, aggErr) == NoErr

\* lines 316-321: with a parent aggregation the combined error is handed to
\* it and nothing is raised, else it is raised
AggRaises(inParent, aggErr) == IF inParent THEN NoErr ELSE aggErr

\* faulty variant of PopState: the frame of the exiting aggregation stays
PopStateKeepsFrame(aggs) == aggs

\* lines 297-298: the stack once the exiting aggregation's frame is popped
PopState(aggs) == IF aggs # <<>> THEN Front(aggs) ELSE aggs

\* lines 314 and 325: the calls of the reporter's __exit__ on the path taken
\* by the aggregation's __exit__
AggReporterExits(excs) == IF excs # <<>> THEN 1 ELSE 1

\* _AggregateStep.__exit__
ExitAggregate ==
    /\ BlockHere # 0 /\ objs[BlockHere].kind = "agg"
    /\ LET s        == BlockHere
           state    == IF aggStack # <<>> THEN Last(aggStack) ELSE NewAggState(s)
           stack    == PopState(aggStack)
           inParent == stack # <<>>
           excs     == Collected(state, pending)
           aggErr   == IF excs # <<>> THEN AggregateError(Title(s), excs) ELSE NoErr
           report   == IF excs # <<>> THEN Generic(aggErr) ELSE NoErr
           lr       == MaybeLog(log, logEnabled, logBroken,
                                 EndLine(s, IF excs # <<>> THEN "FAIL" ELSE "PASS"))
           out      == AfterLog(IF excs # <<>> THEN AggRaises(inParent, aggErr) ELSE NoErr, lr)
           o2       == [objs EXCEPT ![s].status = StatusOf(report), ![s].report = report,
                                    ![s].raised = out, ![s].active = aggErr,
                                    ![s].exc = pending,
                                    ![s].reports = @ + AggReporterExits(excs)]
           ev       == IF out # NoErr
                       THEN Deliver(o2, ftrace, gtrace, propStack, depth, out)
                       ELSE [objs |-> o2, ftrace |-> ftrace]
       IN  /\ objs' = Forget(ev.objs, Front(blocks), s)
           /\ ftrace' = ev.ftrace
           /\ blocks' = Front(blocks)
           /\ log' = lr.log
           /\ aggStack' = IF excs # <<>> /\ inParent /\ ~lr.raised
                          THEN [stack EXCEPT ![Len(stack)].exceptions = Collect(@, aggErr)]
                          ELSE stack
           /\ pending' = out
           /\ last' = s
    /\ UNCHANGED <<propStack, gtrace, depth, nerr, ncalls, cur, parked, logEnabled, logBroken, host>>

(* ------------------------------ the body ------------------------------- *)
\* the body raises an error of kind k in the running frame
Raise(k) ==
    /\ pending = NoErr
    /\ nerr < MaxErrs
    /\ LET e  == BodyErr(k, nerr + 1)
           ev == Deliver(objs, ftrace, gtrace, propStack, depth, e)
       IN  /\ objs' = ev.objs
           /\ ftrace' = ev.ftrace
           /\ pending' = e
    /\ nerr' = nerr + 1
    /\ last' = 0
    /\ UNCHANGED <<blocks, aggStack, propStack, gtrace, depth, ncalls, cur, parked, logVars, host>>

\* a try/except of the running frame catches the unwinding error
Catch ==
    /\ pending # NoErr
    /\ objs' = IF BlockHere # 0 /\ ~IsControlFlow(pending)
                  /\ objs[BlockHere].handled = NoErr
               THEN [objs EXCEPT ![BlockHere].handled = pending]
               ELSE objs
    /\ pending' = NoErr
    /\ last' = 0
    /\ UNCHANGED <<blocks, aggStack, propStack, ftrace, gtrace, depth, nerr, ncalls, cur, parked, logVars, host>>

\* the body calls a helper: the global stub returns None for the new frame
Call ==
    /\ pending = NoErr
    /\ ncalls < MaxCalls
    /\ ncalls' = ncalls + 1
    /\ last' = 0
    /\ depth' = depth + 1
    /\ ftrace' = [ftrace EXCEPT ![depth + 1] = 0]
    /\ UNCHANGED <<objs, blocks, aggStack, propStack, gtrace, pending, nerr, cur, parked, logVars, host>>

\* the helper returns, or the error leaves it and enters the caller's frame
Return ==
    /\ depth > 1 /\ BlockHere = 0
    /\ depth' = depth - 1
    /\ LET ft1 == [ftrace EXCEPT ![depth] = 0]
           ev  == IF pending # NoErr
                  THEN Deliver(objs, ft1, gtrace, propStack, depth - 1, pending)
                  ELSE [objs |-> objs, ftrace |-> ft1]
       IN  /\ objs' = ev.objs
           /\ ftrace' = ev.ftrace
    /\ last' = 0
    /\ UNCHANGED <<blocks, aggStack, propStack, gtrace, pending, nerr, ncalls, cur, parked, logVars, host>>

(* ------------------------- configuration hooks ------------------------ *)
\* set_step_logging(enabled)
SetStepLogging(enabled) ==
    /\ pending = NoErr
    /\ logEnabled # enabled
    /\ logEnabled' = enabled
    /\ last' = 0
    /\ UNCHANGED <<objs, blocks, aggStack, propStack, ftrace, gtrace, depth, pending, nerr,
                   ncalls, cur, parked, logBroken, log, host>>

\* the test installs loggers whose every call raises
BreakLogger ==
    /\ pending = NoErr
    /\ ~logBroken
    /\ logBroken' = TRUE
    /\ last' = 0
    /\ UNCHANGED <<objs, blocks, aggStack, propStack, ftrace, gtrace, depth, pending, nerr,
                   ncalls, cur, parked, logEnabled, log, host>>

ALLURE_REQUIRED_VERSION == "2.13.4"

\* metadata.version("allure-pytest"): the versions looked at, "None" when
\* the package is not found
Versions == {"2.13.2", "2.13.3", "2.13.4", "2.13.5", "2.14.0", "2.14.1", "9.9.9", "None"}

\* line 341: the version test of _monkey_patch_allure
Warns(version, override) == version # ALLURE_REQUIRED_VERSION

\* faulty variant of SavedOriginal: every call saves what allure.step is now
SavedOriginalEveryCall(original, step) == step

\* lines 356-358: the original step is saved by the first call only
SavedOriginal(original, step) == IF original = "None" THEN step ELSE original

\* _monkey_patch_allure: warn on a version mismatch, save the library's step
\* and install the wrappers
MonkeyPatchAllure ==
    /\ pending = NoErr
    /\ host.calls < MaxInstalls
    /\ host' = [host EXCEPT !.warned = Warns(host.version, host.override),
                            !.original = SavedOriginal(host.original, host.step),
                            !.step = "wrapper",
                            !.patched = TRUE,
                            !.calls = @ + 1]
    /\ last' = 0
    /\ UNCHANGED <<objs, blocks, aggStack, propStack, ftrace, gtrace, depth, pending, nerr,
                   ncalls, cur, parked, logVars>>

(* ------------------------------- threads ------------------------------ *)
Threads == 1..MaxThreads

\* threading.local(): what a thread that has not run yet finds, empty stacks
\* (lines 77-90), no tracer, its own function's frame
Fresh ==
    [blocks |-> <<>>, aggStack |-> <<>>, propStack |-> <<>>,
     ftrace |-> [f \in 1..(MaxCalls + 1) |-> 0], gtrace |-> 0,
     depth |-> 1, pending |-> NoErr, nerr |-> 0, ncalls |-> 0, last |-> 0]

\* the thread-local state of the running thread
Local ==
    [blocks |-> blocks, aggStack |-> aggStack, propStack |-> propStack,
     ftrace |-> ftrace, gtrace |-> gtrace,
     depth |-> depth, pending |-> pending, nerr |-> nerr, ncalls |-> ncalls, last |-> last]

\* the thread-local state of thread t
LocalOf(t) == IF t = cur THEN Local ELSE parked[t]

\* faulty variant of Switch: the two stacks are module globals, not thread-local
SwitchSharedStacks(t) ==
    /\ t # cur
    /\ cur' = t
    /\ parked' = [parked EXCEPT ![cur] = Local, ![t] = Fresh]
    /\ blocks' = parked[t].blocks
    /\ ftrace' = parked[t].ftrace
    /\ gtrace' = parked[t].gtrace
    /\ depth' = parked[t].depth
    /\ pending' = parked[t].pending
    /\ nerr' = parked[t].nerr
    /\ ncalls' = parked[t].ncalls
    /\ last' = parked[t].last
    /\ UNCHANGED <<objs, aggStack, propStack, logVars, host>>

\* the interpreter hands the processor to thread t: the running thread's
\* stacks, tracers, frames and unwinding error are put aside and t's come back
Switch(t) ==
    /\ t # cur
    /\ cur' = t
    /\ parked' = [parked EXCEPT ![cur] = Local, ![t] = Fresh]
    /\ blocks' = parked[t].blocks
    /\ aggStack' = parked[t].aggStack
    /\ propStack' = parked[t].propStack
    /\ ftrace' = parked[t].ftrace
    /\ gtrace' = parked[t].gtrace
    /\ depth' = parked[t].depth
    /\ pending' = parked[t].pending
    /\ nerr' = parked[t].nerr
    /\ ncalls' = parked[t].ncalls
    /\ last' = parked[t].last
    /\ UNCHANGED <<objs, logVars, host>>

\* a test starts: no scope, no error, one running thread, step logging off
\* (line 28)
InitRun ==
    /\ objs = <<>>
    /\ blocks = <<>>
    /\ aggStack = <<>>
    /\ propStack = <<>>
    /\ ftrace = [f \in 1..(MaxCalls + 1) |-> 0]
    /\ gtrace = 0
    /\ depth = 1
    /\ pending = NoErr
    /\ nerr = 0
    /\ ncalls = 0
    /\ last = 0
    /\ cur = 1
    /\ parked = [t \in Threads |-> Fresh]
    /\ logEnabled = FALSE
    /\ logBroken = FALSE
    /\ log = <<>>

\* pytest_configure has installed the wrappers over the required allure-pytest
Init ==
    /\ InitRun
    /\ host = [version |-> ALLURE_REQUIRED_VERSION, override |-> FALSE,
               warned |-> FALSE, patched |-> TRUE,
               step |-> "wrapper", original |-> "library", calls |-> 1]

\* before pytest_configure: any allure-pytest may be installed, and the
\* variable ALLURE_EXT_ALLOW_VERSION_MISMATCH may be set
InitInstall ==
    /\ InitRun
    /\ host \in [version : Versions, override : BOOLEAN, warned : {FALSE}, patched : {FALSE},
                 step : {"library"}, original : {"None"}, calls : {0}]

Next ==
    \/ \E p \in BOOLEAN, r \in BOOLEAN : EnterStep(p, r)
    \/ ExitStep
    \/ EnterAggregate
    \/ ExitAggregate
    \/ \E k \in Kinds : Raise(k)
    \/ Catch
    \/ Call
    \/ Return

Spec == Init /\ [][Next]_vars

\* one thread whose bodies make no helper calls and end: the with statement
\* runs the exit of a block whose body has ended
NextLive ==
    \/ \E p \in BOOLEAN, r \in BOOLEAN : EnterStep(p, r)
    \/ ExitStep
    \/ EnterAggregate
    \/ ExitAggregate
    \/ \E k \in Kinds : Raise(k)
    \/ Catch

SpecLive ==
    /\ Init /\ [][NextLive]_vars
    /\ WF_vars(ExitStep) /\ WF_vars(ExitAggregate)

\* the errors raised so far by all threads
RECURSIVE TotalErrs(_)
TotalErrs(ts) ==
    IF ts = {} THEN 0
    ELSE LET t == CHOOSE x \in ts : TRUE
         IN  LocalOf(t).nerr + TotalErrs(ts \ {t})

\* several threads: any thread may be given the processor between two
\* operations; the bodies make no helper calls
NextThreads ==
    \/ \E t \in Threads : Switch(t)
    \/ \E p \in BOOLEAN, r \in BOOLEAN : EnterStep(p, r)
    \/ ExitStep
    \/ EnterAggregate
    \/ ExitAggregate
    \/ \E k \in Kinds : TotalErrs(Threads) < MaxThreadErrs /\ Raise(k)
    \/ Catch

SpecThreads == Init /\ [][NextThreads]_vars

\* one thread whose test switches step logging on and off and may install
\* failing loggers; the bodies make no helper calls
NextLog ==
    \/ \E b \in BOOLEAN : SetStepLogging(b)
    \/ BreakLogger
    \/ \E p \in BOOLEAN, r \in BOOLEAN : Len(objs) < MaxLogScopes /\ EnterStep(p, r)
    \/ ExitStep
    \/ Len(objs) < MaxLogScopes /\ EnterAggregate
    \/ ExitAggregate
    \/ \E k \in Kinds : nerr < MaxLogErrs /\ Raise(k)
    \/ Catch

SpecLog == Init /\ [][NextLog]_vars

\* installation, then steps that raise nothing: the wrappers exist once
\* _monkey_patch_allure has run
NextInstall ==
    \/ MonkeyPatchAllure
    \/ \E p \in BOOLEAN, r \in BOOLEAN : host.patched /\ EnterStep(p, r)
    \/ host.patched /\ ExitStep

SpecInstall == InitInstall /\ [][NextInstall]_vars

\* one thread whose bodies also drive the context manager protocol by hand
NextManual ==
    \/ \E p \in BOOLEAN, r \in BOOLEAN : EnterStep(p, r)
    \/ ExitStep
    \/ \E s \in 1..MaxScopes : ManualExit(s)
    \/ \E k \in Kinds : nerr < MaxManualErrs /\ Raise(k)
    \/ Catch

SpecManual == Init /\ [][NextManual]_vars

(* ======================================================================= *)
(* Properties                                                              *)
(* ======================================================================= *)
\* the scope whose __exit__ has just run
StepExited == last # 0 /\ objs[last].kind = "step"
AggExited  == last # 0 /\ objs[last].kind = "agg"
Ex == objs[last]

\* the closed scopes recorded with aggregation a as their enclosing one
KidsOf(a) == {i \in DOMAIN objs : objs[i].encl = a /\ objs[i].status \in {"PASSED", "FAILED"}}
FailedKidsOf(a) == {i \in KidsOf(a) : objs[i].status = "FAILED"}
\* the closed scopes entered directly in the body of scope s
ChildrenOf(s) == {i \in DOMAIN objs : objs[i].parent = s /\ objs[i].status \in {"PASSED", "FAILED"}}

\* the test function can return with no error: the test passes
TestPasses == blocks = <<>> /\ depth = 1 /\ pending = NoErr

\* the exit ran with no aggregation open (a step's exit leaves the stack alone)
NoAggregationOpen == aggStack = <<>>

\* the step's body raised a real error and handled it itself, nothing escaped
CaughtInside(x) == x.handled # NoErr /\ x.exc = NoErr

(* ----------------------------------------------------------------------- *)
\* C1: when an aggregation whose body raised nothing directly exits with K >= 1
\* failed scopes among those nested in it, none of the failed scopes raised at
\* its exit (no later step was skipped), the aggregation is FAILED, its
\* CombinedError has exactly K causes, every cause is the error of a failed
\* nested scope and every failed nested scope's error is a cause, and the
\* CombinedError is raised, or is the newest entry of the enclosing aggregation.
C1_AggregationCollectsEveryFailure ==
    (AggExited /\ Ex.exc = NoErr /\ FailedKidsOf(last) # {}) =>
        /\ \A i \in FailedKidsOf(last) : objs[i].raised = NoErr
        /\ Ex.status = "FAILED"
        /\ Ex.active.kind = "AggregateError"
        /\ Len(Ex.active.causes) = Cardinality(FailedKidsOf(last))
        /\ \A i \in FailedKidsOf(last) :
              \E j \in 1..Len(Ex.active.causes) : Ex.active.causes[j] = objs[i].active
        /\ \A j \in 1..Len(Ex.active.causes) :
              \E i \in FailedKidsOf(last) : Ex.active.causes[j] = objs[i].active
        /\ IF Ex.encl = 0
           THEN Ex.raised = Ex.active /\ pending = Ex.active
           ELSE /\ Ex.raised = NoErr /\ pending = NoErr
                /\ Last(aggStack).id = Ex.encl
                /\ Last(Last(aggStack).exceptions) = Ex.active

\* C1 witness: an aggregation exits after a nested step failed and a later
\* nested step ran and passed
C1_Witness ==
    /\ AggExited /\ Ex.exc = NoErr
    /\ \E i \in FailedKidsOf(last) : \E j \in KidsOf(last) :
          /\ j > i /\ objs[j].status = "PASSED"
          /\ Ex.active.causes = <<objs[i].active>>

C4_Original_ChildDoesNotRaise ==
    (StepExited /\ Ex.propagate /\ Ex.rop /\ Ex.parent # 0 /\ CaughtInside(Ex)) =>
        /\ Ex.status = "FAILED"
        /\ Ex.raised = NoErr

(* ----------------------------------------------------------------------- *)
\* C5: with no aggregation open, (i) a propagating step without
\* raise_on_parent that lies inside an open propagating raise_on_parent
\* ancestor and that caught an error inside, or whose propagating child failed
\* without raising, is FAILED, raises nothing and leaves no error unwinding, so
\* the statements after it run; (ii) a propagating raise_on_parent step from
\* whose body nothing escaped and one of whose propagating children failed that
\* way is FAILED and raises, at its own exit, the error it captured.
QuietlyFailedChild(s) ==
    \E c \in ChildrenOf(s) :
        /\ objs[c].kind = "step" /\ objs[c].propagate /\ ~objs[c].rop
        /\ objs[c].status = "FAILED" /\ objs[c].exc = NoErr /\ objs[c].raised = NoErr

InsideRaisingAncestor ==
    \E i \in 1..Len(blocks) : objs[blocks[i]].propagate /\ objs[blocks[i]].rop

C5_DeferredToFirstRaisingAncestor ==
    /\ (StepExited /\ NoAggregationOpen /\ Ex.propagate /\ ~Ex.rop /\ Ex.exc = NoErr
          /\ InsideRaisingAncestor
          /\ (Ex.handled # NoErr \/ QuietlyFailedChild(last))) =>
            /\ Ex.status = "FAILED"
            /\ Ex.raised = NoErr /\ pending = NoErr
    /\ (StepExited /\ NoAggregationOpen /\ Ex.propagate /\ Ex.rop /\ Ex.exc = NoErr
          /\ QuietlyFailedChild(last)) =>
            /\ Ex.status = "FAILED"
            /\ Ex.raised # NoErr /\ Ex.raised \in {Ex.caught, Ex.observed}
            /\ pending = Ex.raised

\* C5 witness: the raising ancestor exits after a propagating child failed quietly
C5_Witness ==
    /\ StepExited /\ NoAggregationOpen /\ Ex.propagate /\ Ex.rop /\ Ex.exc = NoErr
    /\ Ex.handled = NoErr
    /\ QuietlyFailedChild(last)
    /\ \E c \in ChildrenOf(last) : objs[c].handled # NoErr /\ Ex.raised = objs[c].handled

C7_EscapedErrorReraisedUnchanged ==
    (StepExited /\ NoAggregationOpen /\ Ex.exc # NoErr) =>
        /\ Ex.status = "FAILED"
        /\ Ex.report = Ex.exc
        /\ Ex.raised = Ex.exc
        /\ pending = Ex.exc

\* C7 witness: a propagating raise_on_parent step that had captured an earlier
\* error lets a later, different error escape
C7_Witness ==
    /\ StepExited /\ NoAggregationOpen /\ Ex.exc # NoErr
    /\ Ex.propagate /\ Ex.rop
    /\ Ex.handled # NoErr /\ Ex.handled # Ex.exc

(* ----------------------------------------------------------------------- *)
\* C8: a scope whose exit is called with no error and during whose lifetime
\* no error was raised at all, or (for a step) whose observation mechanism
\* captured nothing, is PASSED, raises nothing and leaves no error unwinding.
C8_CleanScopePasses ==
    /\ (StepExited /\ Ex.exc = NoErr
          /\ (Ex.born = nerr \/ (Ex.caught = NoErr /\ Ex.observed = NoErr))) =>
            /\ Ex.status = "PASSED" /\ Ex.report = NoErr
            /\ Ex.raised = NoErr /\ pending = NoErr
    /\ (AggExited /\ Ex.exc = NoErr /\ Ex.born = nerr) =>
            /\ Ex.status = "PASSED" /\ Ex.report = NoErr
            /\ Ex.raised = NoErr /\ pending = NoErr

\* C8 witness: a propagating raise_on_parent step passes inside an aggregation
\* in which an earlier scope failed
C8_Witness ==
    /\ StepExited /\ Ex.exc = NoErr /\ Ex.born = nerr /\ nerr > 0
    /\ Ex.propagate /\ Ex.rop
    /\ Ex.encl # 0 /\ Last(aggStack).exceptions # <<>>
    /\ Ex.status = "PASSED"

ExitingStep == IF BlockHere # 0 /\ objs[BlockHere].kind = "step" THEN BlockHere ELSE 0

C10_SuppressedIntoTopAggregation ==
    [][ (/\ ExitingStep # 0 /\ last' = ExitingStep
         /\ aggStack # <<>>
         /\ \/ pending # NoErr
            \/ /\ objs[ExitingStep].propagate
               /\ (objs[ExitingStep].caught # NoErr \/ objs[ExitingStep].observed # NoErr))
        => (/\ pending' = NoErr
            /\ objs'[ExitingStep].raised = NoErr
            /\ objs'[ExitingStep].status = "FAILED"
            /\ Len(aggStack') = Len(aggStack)
            /\ \A i \in 1..(Len(aggStack) - 1) : aggStack'[i] = aggStack[i]
            /\ Last(aggStack').exceptions =
                  Append(Last(aggStack).exceptions,
                         IF pending # NoErr THEN pending
                         ELSE IF objs[ExitingStep].caught # NoErr
                              THEN objs[ExitingStep].caught
                              ELSE objs[ExitingStep].observed)) ]_vars

\* C10 witness: a propagating raise_on_parent step that caught an error inside
\* was suppressed into the aggregation, whose body then went on
C10_Witness ==
    /\ StepExited /\ Ex.propagate /\ Ex.rop /\ CaughtInside(Ex)
    /\ aggStack # <<>> /\ Last(Last(aggStack).exceptions) = Ex.handled
    /\ pending = NoErr /\ Ex.raised = NoErr

(* ----------------------------------------------------------------------- *)
\* C11 as stated, the part about duplication: no error is held twice by the
\* collected list of an open aggregation, and no error is held by the lists of
\* two open aggregations.
C11_Original_NoErrorCollectedTwice ==
    /\ \A a \in 1..Len(aggStack) :
          \A i, j \in 1..Len(aggStack[a].exceptions) :
              i # j => aggStack[a].exceptions[i] # aggStack[a].exceptions[j]
    /\ \A a, b \in 1..Len(aggStack) :
          a # b => \A i \in 1..Len(aggStack[a].exceptions) :
                      ~InSeq(aggStack[a].exceptions[i], aggStack[b].exceptions)

(* ----------------------------------------------------------------------- *)
\* C12: an aggregation whose body raised nothing and none of whose nested
\* scopes failed is PASSED, raises nothing and leaves no error unwinding;
\* and whenever an aggregation's exit raises, what it raises is
\* its CombinedError, whose causes, the collected list at exit, are not empty
\* and come from a failed nested scope or from the body.
C12_PassesWhenNothingCollected ==
    /\ (AggExited /\ Ex.exc = NoErr /\ FailedKidsOf(last) = {}) =>
          /\ Ex.status = "PASSED" /\ Ex.report = NoErr /\ Ex.active = NoErr
          /\ Ex.raised = NoErr /\ pending = NoErr
    /\ (AggExited /\ Ex.raised # NoErr) =>
          /\ Ex.raised = Ex.active /\ Ex.raised.kind = "AggregateError"
          /\ Ex.raised.causes # <<>>
          /\ (Ex.exc # NoErr \/ FailedKidsOf(last) # {})

\* C12 witness: an aggregation exits PASSED after a nested step, in whose body
\* an error was raised and handled, passed
C12_Witness ==
    /\ AggExited /\ Ex.exc = NoErr /\ Ex.status = "PASSED" /\ pending = NoErr
    /\ Ex.born < nerr
    /\ \E i \in KidsOf(last) : objs[i].status = "PASSED" /\ objs[i].handled # NoErr

(* ----------------------------------------------------------------------- *)
\* C13: when the exit of an aggregation whose collected list is not empty
\* runs while another aggregation is open beneath it, the inner aggregation
\* is FAILED, raises nothing and leaves no error unwinding (the enclosing
\* body goes on), and the enclosing list grows by exactly one entry: the
\* inner CombinedError, which carries the inner list as its causes.
ExitingAgg == IF BlockHere # 0 /\ objs[BlockHere].kind = "agg" THEN BlockHere ELSE 0

C13_NestedCombinedErrorIsOneEntry ==
    [][ (/\ ExitingAgg # 0 /\ last' = ExitingAgg
         /\ Len(aggStack) >= 2
         /\ Last(aggStack).exceptions # <<>>)
        => (/\ pending' = NoErr
            /\ objs'[ExitingAgg].raised = NoErr
            /\ objs'[ExitingAgg].status = "FAILED"
            /\ Len(aggStack') = Len(aggStack) - 1
            /\ \A i \in 1..(Len(aggStack) - 2) : aggStack'[i] = aggStack[i]
            /\ Len(Last(aggStack').exceptions) = Len(aggStack[Len(aggStack) - 1].exceptions) + 1
            /\ SubSeq(Last(aggStack').exceptions, 1, Len(aggStack[Len(aggStack) - 1].exceptions))
                  = aggStack[Len(aggStack) - 1].exceptions
            /\ Last(Last(aggStack').exceptions).kind = "AggregateError"
            /\ Last(Last(aggStack').exceptions).causes =
                  IF pending # NoErr THEN Append(Last(aggStack).exceptions, pending)
                  ELSE Last(aggStack).exceptions) ]_vars

\* C13 witness: an inner aggregation that collected two errors has exited; the
\* enclosing list holds one entry, the inner CombinedError with its two causes
C13_Witness ==
    /\ AggExited /\ Ex.encl # 0 /\ Ex.status = "FAILED"
    /\ pending = NoErr /\ Ex.raised = NoErr
    /\ Last(aggStack).id = Ex.encl
    /\ Last(aggStack).exceptions = <<Ex.active>>
    /\ Len(Ex.active.causes) = 2

(* ----------------------------------------------------------------------- *)
\* C14: when an aggregation's exit is called with an error that escaped its
\* body, the aggregation is FAILED, the error is the last cause of its
\* CombinedError, and what leaves the exit is never the original error: the
\* CombinedError is raised, or handed to the enclosing aggregation with
\* nothing raised.  While the error was unwinding no further scope was
\* entered (the rest of the body did not run).
C14_BodyErrorSurfacesInCombinedError ==
    (AggExited /\ Ex.exc # NoErr) =>
        /\ Ex.status = "FAILED"
        /\ Ex.active.kind = "AggregateError"
        /\ Last(Ex.active.causes) = Ex.exc
        /\ Ex.raised # Ex.exc /\ pending # Ex.exc
        /\ IF Ex.encl = 0
           THEN Ex.raised = Ex.active /\ pending = Ex.active
           ELSE /\ Ex.raised = NoErr /\ pending = NoErr
                /\ Last(Last(aggStack).exceptions) = Ex.active
        /\ \A i \in DOMAIN objs : objs[i].parent = last => objs[i].status # "OPEN"

\* C14 witness: the body of an outermost aggregation raised after a nested
\* step had failed; the CombinedError with both causes is what is unwinding
C14_Witness ==
    /\ AggExited /\ Ex.exc # NoErr /\ Ex.encl = 0
    /\ Len(Ex.active.causes) = 2 /\ Ex.active.causes[2] = Ex.exc
    /\ Ex.active.causes[1] # Ex.exc
    /\ pending = Ex.active

(* ----------------------------------------------------------------------- *)
\* C15: the text of every CombinedError an aggregation builds is
\* "<n> exception(s) occurred during '<title>': " followed by its causes,
\* each rendered "<kind>: <message>", joined by ", " in list order, n being
\* the number of causes.
RenderedCause(e) == e.kind \o ": " \o e.msg

RECURSIVE ExpectedSummary(_)
ExpectedSummary(cs) ==
    IF Len(cs) = 0 THEN ""
    ELSE IF Len(cs) = 1 THEN RenderedCause(cs[1])
    ELSE ExpectedSummary(Front(cs)) \o ", " \o RenderedCause(Last(cs))

ExpectedText(title, cs) ==
    ToString(Len(cs)) \o " exception(s) occurred during '" \o title \o "': "
        \o ExpectedSummary(cs)

C15_CombinedErrorText ==
    (AggExited /\ Ex.active # NoErr) =>
        /\ Ex.active.msg = ExpectedText(Title(last), Ex.active.causes)
        /\ Ex.report.msg = Ex.active.msg

\* C15 witness: two different causes, rendered in the order they were collected
C15_Witness ==
    /\ AggExited /\ last = 1
    /\ Len(Ex.active.causes) = 2
    /\ Ex.active.msg = "2 exception(s) occurred during 't1': ValueError: e1, StopIteration: e2"

(* ----------------------------------------------------------------------- *)
\* C16: with several threads entering and exiting scopes in any
\* interleaving, the aggregation stack and the propagating stack of a thread
\* hold only scopes that thread entered, every error in a collected list of
\* a thread's aggregation (and every error carried inside it) was raised on
\* that thread, and every error a scope captured or was told about by a
\* broadcast was raised on the scope's own thread.
RECURSIVE RaisedOn(_, _)
RaisedOn(e, t) ==
    /\ e.origin = t
    /\ \A i \in 1..Len(e.causes) : RaisedOn(e.causes[i], t)

C16_StacksHoldOwnScopesOnly ==
    /\ \A t \in Threads :
          LET L == LocalOf(t)
          IN  /\ \A i \in 1..Len(L.aggStack) :
                    /\ objs[L.aggStack[i].id].thread = t
                    /\ \A j \in 1..Len(L.aggStack[i].exceptions) :
                          RaisedOn(L.aggStack[i].exceptions[j], t)
              /\ \A i \in 1..Len(L.propStack) : objs[L.propStack[i]].thread = t
    /\ \A i \in DOMAIN objs :
          /\ objs[i].caught # NoErr => RaisedOn(objs[i].caught, objs[i].thread)
          /\ objs[i].observed # NoErr => RaisedOn(objs[i].observed, objs[i].thread)

\* C16 witness: a propagating step of one thread caught an error and failed
\* while another thread had an aggregation and a propagating step open, which
\* were told nothing and collected nothing
C16_Witness ==
    \E t \in Threads, u \in Threads :
        /\ t # u
        /\ LocalOf(t).aggStack # <<>> /\ LocalOf(t).propStack # <<>>
        /\ \A i \in 1..Len(LocalOf(t).aggStack) : LocalOf(t).aggStack[i].exceptions = <<>>
        /\ \A i \in 1..Len(LocalOf(t).propStack) : objs[LocalOf(t).propStack[i]].observed = NoErr
        /\ LocalOf(u).last # 0
        /\ objs[LocalOf(u).last].thread = u
        /\ objs[LocalOf(u).last].propagate
        /\ objs[LocalOf(u).last].status = "FAILED"
        /\ objs[LocalOf(u).last].caught # NoErr

(* ----------------------------------------------------------------------- *)
\* C17: what a thread can see and what its scopes record (its stacks,
\* tracers, frames and unwinding error, and the status, report, raised and
\* captured errors of its scope objects) is changed by that thread's own
\* operations only: an operation of the running thread leaves the view of
\* every other thread as it was, and a context switch leaves every view as it
\* was.  So a thread's outcome is the outcome of its own sequence of
\* operations, whatever the interleaving.
View(t) ==
    [local  |-> LocalOf(t),
     scopes |-> [i \in {j \in DOMAIN objs : objs[j].thread = t} |-> objs[i]]]

C17_OtherThreadsUntouched ==
    [][ \A t \in Threads : (t # cur \/ cur' # cur) => View(t)' = View(t) ]_vars

\* C17 witness: a step of thread 1 has failed at its exit, and while it was
\* open thread 2 entered a step of its own and left it PASSED
C17_Witness ==
    /\ cur = 1 /\ StepExited /\ Ex.thread = 1 /\ Ex.status = "FAILED"
    /\ \E j \in DOMAIN objs :
          /\ j > last /\ objs[j].thread = 2 /\ objs[j].status = "PASSED"
          /\ parked[2].last = j

(* ----------------------------------------------------------------------- *)
\* C18 as stated: after the exit of a propagating step, on every exit path,
\* the caller frame's local tracer and the thread's global tracer are exactly
\* the ones that were installed immediately before the step's entry, and the
\* tracers of the other frames are untouched.
EnteringStep == IF Len(objs') = Len(objs) + 1 THEN Len(objs') ELSE 0

RECURSIVE Carries(_, _)
Carries(x, e) ==
    \/ InSeq(e, x.causes)
    \/ \E i \in 1..Len(x.causes) : Carries(x.causes[i], e)

\* an error that escaped a scope's body is not dropped at the scope's exit
EscapedErrorNotDropped ==
    /\ (StepExited /\ Ex.exc # NoErr) =>
          /\ Ex.status = "FAILED"
          /\ IF aggStack = <<>>
             THEN Ex.raised = Ex.exc /\ pending = Ex.exc
             ELSE Ex.raised = NoErr /\ Last(Last(aggStack).exceptions) = Ex.exc
    /\ (AggExited /\ Ex.exc # NoErr) =>
          /\ Ex.status = "FAILED"
          /\ InSeq(Ex.exc, Ex.active.causes)
          /\ IF aggStack = <<>>
             THEN Ex.raised = Ex.active /\ pending = Ex.active
             ELSE Ex.raised = NoErr /\ Last(Last(aggStack).exceptions) = Ex.active

Held(e) ==
    \E a \in 1..Len(aggStack) :
        \E i \in 1..Len(aggStack[a].exceptions) :
            aggStack[a].exceptions[i] = e \/ Carries(aggStack[a].exceptions[i], e)

BodyErrors ==
    {[kind |-> k, msg |-> "e" \o ToString(n), causes |-> <<>>, origin |-> 1] :
        k \in Kinds, n \in 1..MaxErrs}

SomethingCollected == \E a \in 1..Len(aggStack) : aggStack[a].exceptions # <<>>

\* C19: an error that unwinds uncaught out of a scope's body makes the scope
\* FAILED and is not dropped at the scope's exit: a step re-raises it, or,
\* with an aggregation open, adds it to the list of the aggregation on top
\* of the stack; an aggregation adds it to its own list, which its
\* CombinedError carries as causes and which is raised or handed, as one
\* entry, to the enclosing aggregation.  Whatever an open aggregation has
\* collected stays collected, directly or inside a nested CombinedError,
\* until it is carried by the CombinedError that is raised when the outermost
\* open aggregation exits; and once something is collected, that exit and
\* that raise eventually happen.
C19_EscapedErrorEventuallySurfaces ==
    /\ []EscapedErrorNotDropped
    /\ [][ \A e \in BodyErrors :
              Held(e) => \/ Held(e)'
                         \/ /\ aggStack' = <<>>
                            /\ pending'.kind = "AggregateError" /\ Carries(pending', e) ]_vars
    /\ SomethingCollected ~> (aggStack = <<>> /\ pending.kind = "AggregateError")

\* C19 witness: the CombinedError of the outermost aggregation is unwinding
\* and carries, inside the CombinedError of a nested aggregation, an error
\* that escaped the body of a scope nested in it
C19_Witness ==
    /\ AggExited /\ aggStack = <<>> /\ pending = Ex.active
    /\ \E i \in KidsOf(last) :
          /\ objs[i].kind = "agg" /\ objs[i].status = "FAILED"
          /\ InSeq(objs[i].active, pending.causes)
          /\ \E e \in BodyErrors : InSeq(e, objs[i].active.causes) /\ Carries(pending, e)

(* ----------------------------------------------------------------------- *)
\* C20: in a chain of nested plain steps with no aggregation open, a step is
\* FAILED exactly when an error unwound through its boundary, and that error
\* goes on unwinding unchanged; a step in whose body the error of a nested
\* plain step was caught, and from whose body nothing escaped, is PASSED while
\* the nested step the error unwound through is FAILED; a step out of whose
\* body the error of a nested step went on is FAILED like the nested step.
PlainChain ==
    /\ StepExited /\ ~Ex.propagate /\ NoAggregationOpen
    /\ \A i \in 1..Len(blocks) : objs[blocks[i]].kind = "step" /\ ~objs[blocks[i]].propagate

PlainChildren == {c \in ChildrenOf(last) : objs[c].kind = "step" /\ ~objs[c].propagate}

FailedQuietlyInside(s) ==
    \E c \in ChildrenOf(s) :
        /\ objs[c].kind = "step" /\ objs[c].propagate /\ ~objs[c].rop
        /\ objs[c].status = "FAILED" /\ CaughtInside(objs[c]) /\ objs[c].raised = NoErr

Holds(x) == x.caught # NoErr \/ x.observed # NoErr

C22_OpenPropagatingStepsAllObserve ==
    /\ [](StepExited /\ Ex.propagate /\ Ex.observed # NoErr => Ex.status = "FAILED")
    /\ [][ /\ (\E i \in 1..Len(propStack') :
                  /\ InSeq(propStack'[i], propStack)
                  /\ ~Holds(objs[propStack'[i]]) /\ Holds(objs'[propStack'[i]])) =>
              \A j \in 1..Len(propStack') :
                  /\ objs'[propStack'[j]].observed # NoErr
                  /\ (InSeq(propStack'[j], propStack) /\ objs[propStack'[j]].observed = NoErr) =>
                        objs'[propStack'[j]].observed \in {pending, pending'}
                                                       \cup {objs'[k].active : k \in {last'} \ {0}}
           /\ (ExitingStep # 0 /\ last' = ExitingStep /\ objs'[ExitingStep].active # NoErr) =>
              \A j \in 1..Len(propStack') :
                  /\ objs'[propStack'[j]].observed # NoErr
                  /\ objs[propStack'[j]].observed = NoErr =>
                        objs'[propStack'[j]].observed = objs'[ExitingStep].active ]_vars

\* C22 witness: a propagating step in whose own body nothing was raised or
\* caught is FAILED at its exit, by the error its propagating child caught
C22_Witness ==
    /\ StepExited /\ Ex.propagate /\ ~Ex.rop /\ Ex.exc = NoErr /\ Ex.handled = NoErr
    /\ Ex.status = "FAILED" /\ pending = NoErr
    /\ \E c \in ChildrenOf(last) :
          /\ objs[c].propagate /\ CaughtInside(objs[c])
          /\ Ex.observed = objs[c].handled

(* ----------------------------------------------------------------------- *)
\* C23 as stated: at the exit of a propagating step from which nothing
\* escaped and which holds both an error its own tracer captured and an error
\* it was told of, both real errors raised by the body, the active error is
\* the one that occurred first.
ErrNo(e) == CHOOSE n \in 1..MaxErrs : e.msg = "e" \o ToString(n)

IsBodyErr(e) == e.kind \in RealKinds /\ \E n \in 1..MaxErrs : e.msg = "e" \o ToString(n)

C23_Original_FirstCapturedIsActive ==
    (StepExited /\ Ex.propagate /\ Ex.exc = NoErr
       /\ IsBodyErr(Ex.caught) /\ IsBodyErr(Ex.observed)) =>
        /\ IsBodyErr(Ex.active)
        /\ ErrNo(Ex.active) <= ErrNo(Ex.caught)
        /\ ErrNo(Ex.active) <= ErrNo(Ex.observed)

(* ----------------------------------------------------------------------- *)
\* C24 as stated: a step with raise_on_parent and without propagate whose
\* body raised an error and handled it is FAILED; nested in a parent it
\* raises nothing at its own exit, with no parent it raises at its own exit.
C24_Original_FlagAloneFailsTheStep ==
    (StepExited /\ ~Ex.propagate /\ Ex.rop /\ NoAggregationOpen /\ CaughtInside(Ex)) =>
        /\ Ex.status = "FAILED"
        /\ Ex.parent = 0 => Ex.raised # NoErr
        /\ Ex.parent # 0 => Ex.raised = NoErr


(* ------------------------------ step logging -------------------------- *)
\* the log lines of scope s
LinesOf(s) == {StartLine(s), EndLine(s, "PASS"), EndLine(s, "FAIL")}
Logged(line) == InSeq(line, log)
\* the scope whose __exit__ runs in this step, else 0
Exiting == IF BlockHere # 0 /\ last' = BlockHere THEN BlockHere ELSE 0

\* C25: logging starts disabled, and while it is disabled no entry and no
\* exit of a scope adds a line to the log; so no line is emitted before
\* set_step_logging(True) is called.
C25_NoLinesWhileLoggingDisabled ==
    /\ ~logEnabled /\ log = <<>>
    /\ [][ ~logEnabled => log' = log ]_vars

\* a step and an aggregation have been entered and left, one of them failed,
\* with a working logger, and the log is still empty
C25_Witness ==
    /\ ~logEnabled /\ ~logBroken /\ log = <<>>
    /\ last # 0 /\ objs[last].status = "FAILED"
    /\ \E i \in DOMAIN objs : i # last /\ objs[i].kind # objs[last].kind

\* C26: with logging enabled and a working logger, the entry of a scope
\* appends the scope's START line and nothing else, the exit of a scope
\* appends its END line and nothing else, PASS when the recorded status is
\* PASSED and FAIL when it is FAILED, and no other step adds a line; no line
\* is in the log twice, a scope has at most one END line, and an END line
\* comes after the scope's START line.
C26_OneStartThenOneMatchingEnd ==
    /\ [](/\ \A i, j \in DOMAIN log : log[i] = log[j] => i = j
          /\ \A s \in DOMAIN objs :
               /\ ~(Logged(EndLine(s, "PASS")) /\ Logged(EndLine(s, "FAIL")))
               /\ \A i, j \in DOMAIN log :
                    (log[i] = StartLine(s) /\ log[j] \in LinesOf(s) \ {StartLine(s)}) => i < j
               /\ objs[s].status = "OPEN" =>
                    ~Logged(EndLine(s, "PASS")) /\ ~Logged(EndLine(s, "FAIL")))
    /\ [][ /\ (EnteringStep # 0 /\ logEnabled /\ ~logBroken) =>
                 log' = Append(log, StartLine(EnteringStep))
           /\ (Exiting # 0 /\ logEnabled /\ ~logBroken) =>
                 /\ objs'[Exiting].status \in {"PASSED", "FAILED"}
                 /\ log' = Append(log, EndLine(Exiting,
                                IF objs'[Exiting].status = "PASSED" THEN "PASS" ELSE "FAIL"))
           /\ (EnteringStep = 0 /\ Exiting = 0) => log' = log ]_vars

\* a step inside an aggregation, logged over its whole lifetime: the step is
\* closed with its own error handled in the body and its END line says FAIL,
\* the aggregation's says FAIL as well
C26_Witness ==
    /\ logEnabled /\ ~logBroken
    /\ last = 1 /\ Len(objs) = 2
    /\ objs[1].kind = "agg" /\ objs[2].kind = "step" /\ objs[2].handled # NoErr
    /\ log = <<StartLine(1), StartLine(2), EndLine(2, "FAIL"), EndLine(1, "FAIL")>>

\* C27: what an entry or an exit does to the statuses, to the error that is
\* raised and to the aggregation lists is a function of the scopes and the
\* errors alone, the same with logging off, on, or on with a logger whose
\* every call fails; and no error of the logger is ever raised or recorded.
C27_LoggingHasNoControlFlowEffect ==
    /\ [](/\ pending # LoggerError
          /\ \A s \in DOMAIN objs : objs[s].raised # LoggerError)
    /\ [][ /\ EnteringStep # 0 =>
                 /\ pending' = NoErr
                 /\ blocks' = Append(blocks, EnteringStep)
                 /\ objs'[EnteringStep].status = "OPEN"
           /\ (Exiting # 0 /\ objs[Exiting].kind = "step") =>
                 LET me     == objs[Exiting]
                     active == ActiveExc(me, pending)
                     inAgg  == InAggregate(aggStack)
                 IN  /\ objs'[Exiting].status = IF active = NoErr THEN "PASSED" ELSE "FAILED"
                     /\ pending' = IF active = NoErr THEN pending
                                   ELSE IF inAgg THEN NoErr
                                   ELSE StepRaises(me, pending, active)
                     /\ aggStack' = IF active # NoErr /\ inAgg
                                    THEN [aggStack EXCEPT ![Len(aggStack)].exceptions =
                                                              Collect(@, active)]
                                    ELSE aggStack
           /\ (Exiting # 0 /\ objs[Exiting].kind = "agg") =>
                 LET excs   == Collected(Last(aggStack), pending)
                     aggErr == AggregateError(Title(Exiting), excs)
                     stack  == Front(aggStack)
                 IN  /\ objs'[Exiting].status = IF excs = <<>> THEN "PASSED" ELSE "FAILED"
                     /\ pending' = IF excs = <<>> THEN NoErr
                                   ELSE AggRaises(stack # <<>>, aggErr)
                     /\ aggStack' = IF excs # <<>> /\ stack # <<>>
                                    THEN [stack EXCEPT ![Len(stack)].exceptions =
                                                           Collect(@, aggErr)]
                                    ELSE stack ]_vars

\* the failing logger has been called at the entry and at the exit of a step
\* that is recorded FAILED in its aggregation: no line of the step is in the
\* log, and nothing is raised
C27_Witness ==
    /\ logEnabled /\ logBroken
    /\ last # 0 /\ objs[last].kind = "step" /\ objs[last].status = "FAILED"
    /\ aggStack # <<>> /\ Last(aggStack).exceptions # <<>>
    /\ LinesOf(last) \cap {log[i] : i \in DOMAIN log} = {}
    /\ pending = NoErr


(* --------------------------- the version guard ------------------------ *)
\* the versions of Versions inside the inclusive range [2.13.3, 2.14.0]
InStatedRange(version) == version \in {"2.13.3", "2.13.4", "2.13.5", "2.14.0"}

\* C28 (as stated): once the wrappers are installed, a RuntimeWarning has
\* been emitted exactly when the installed version is outside
\* [2.13.3, 2.14.0] and the override variable is not set.
C28_Original_WarnsOnlyOutsideRangeWithoutOverride ==
    host.patched =>
        (host.warned <=> (~InStatedRange(host.version) /\ ~host.override))


ExitRuns(s) == s \in DOMAIN objs /\ objs'[s].reports = objs[s].reports + 1

\* C30: after __exit__ of a propagating step, the thread's propagating stack
\* is the stack before with that step taken out: the other entries are kept
\* in their order, whether the step was the top entry or lower down, and
\* the stack is unchanged when the step was not on it.
C30_ExitTakesSelfOffTheStack ==
    [][ \A s \in DOMAIN objs :
          (ExitRuns(s) /\ objs[s].kind = "step" /\ objs[s].propagate) =>
              /\ ~InSeq(s, propStack')
              /\ propStack' = Without(propStack, s) ]_vars

\* a propagating step has been left by hand while a propagating step entered
\* after it is still open: it was taken from below the top of the stack
C30_Witness ==
    /\ last # 0 /\ objs[last].propagate /\ objs[last].reports = 1
    /\ propStack # <<>> /\ Last(propStack) > last
    /\ \E i \in DOMAIN propStack : propStack[i] < last


(* ------------------- the aggregation stack across an exit -------------- *)
\* the aggregations whose frames are on the stack, outermost first
FramesOf(aggs) == [i \in DOMAIN aggs |-> aggs[i].id]
\* the aggregations among the open blocks, outermost first
OpenAggs == SelectSeq(blocks, LAMBDA b : objs[b].kind = "agg")

\* C31: the frames on the aggregation stack are those of the open
\* aggregations; the entry of an aggregation pushes one frame on the stack as
\* it is, and the exit of an aggregation, passing, suppressed or raising,
\* leaves the frames that were there before its entry: its own frame is gone,
\* the innermost aggregation is again the one recorded at its entry, the lists
\* below the enclosing frame are untouched and the enclosing list has grown
\* by the combined error at most.  After a top-level aggregation has raised,
\* the stack is empty, so a later step is not suppressed.
C31_ExitLeavesStackAsBeforeEntry ==
    /\ [](FramesOf(aggStack) = OpenAggs)
    /\ [][ /\ (EnteringStep # 0 /\ objs'[EnteringStep].kind = "agg") =>
                 /\ Front(aggStack') = aggStack
                 /\ Last(aggStack').id = EnteringStep
                 /\ objs'[EnteringStep].encl = InnermostAgg
           /\ (ExitingAgg # 0 /\ last' = ExitingAgg) =>
                 /\ Last(aggStack).id = ExitingAgg
                 /\ FramesOf(aggStack') = FramesOf(Front(aggStack))
                 /\ InnermostAgg' = objs[ExitingAgg].encl
                 /\ \A i \in 1..(Len(aggStack') - 1) : aggStack'[i] = aggStack[i]
                 /\ aggStack' # <<>> =>
                      \/ Last(aggStack') = aggStack[Len(aggStack')]
                      \/ /\ objs'[ExitingAgg].status = "FAILED"
                         /\ Last(aggStack').exceptions =
                              Append(aggStack[Len(aggStack')].exceptions, objs'[ExitingAgg].active)
                 /\ pending' # NoErr => aggStack' = <<>>
           /\ (ExitingStep # 0 /\ last' = ExitingStep) =>
                 FramesOf(aggStack') = FramesOf(aggStack) ]_vars

\* inside a plain step a top-level aggregation raised its combined error,
\* the body handled it, and the step entered next failed with its own error:
\* that step is reported with the real error and the error goes on unwinding
C31_Witness ==
    /\ Len(objs) = 3 /\ last = 3 /\ aggStack = <<>>
    /\ objs[2].kind = "agg" /\ objs[2].status = "FAILED"
    /\ objs[2].raised.kind = "AggregateError"
    /\ objs[3].kind = "step" /\ objs[3].status = "FAILED"
    /\ objs[3].report = objs[3].active /\ objs[3].raised = objs[3].active
    /\ pending = objs[3].active /\ pending.kind \in RealKinds


(* ------------------------ the order of collection ---------------------- *)
\* when an entry of a collected list occurred: a body error when it was
\* raised, a combined error when its latest cause was
RECURSIVE OccurredAt(_)
OccurredAt(e) ==
    IF e.causes = <<>> THEN ErrNo(e)
    ELSE LET ns == {OccurredAt(e.causes[i]) : i \in DOMAIN e.causes}
         IN  CHOOSE n \in ns : \A m \in ns : m <= n

InOrderOfOccurrence(list) ==
    \A i, j \in DOMAIN list : i < j => OccurredAt(list[i]) <= OccurredAt(list[j])

\* C32 (as stated): every collected list, and the causes of a combined error
\* that is raised, are in the order in which the errors occurred.
C32_Original_CollectedInOrderOfOccurrence ==
    /\ \A i \in DOMAIN aggStack : InOrderOfOccurrence(aggStack[i].exceptions)
    /\ pending.kind = "AggregateError" => InOrderOfOccurrence(pending.causes)


(* --------------------------- sentinel signals -------------------------- *)
\* C33 (as stated): no scope ever holds a sentinel control-flow signal in its
\* captured slots, and a propagating step that exits with nothing escaping
\* and no real error captured is PASSED.
C33_Original_SentinelNeverCaptured ==
    /\ \A s \in DOMAIN objs :
         ~IsControlFlow(objs[s].caught) /\ ~IsControlFlow(objs[s].observed)
    /\ (StepExited /\ Ex.propagate /\ Ex.exc = NoErr
          /\ (Ex.caught = NoErr \/ IsControlFlow(Ex.caught))
          /\ (Ex.observed = NoErr \/ IsControlFlow(Ex.observed)))
        => Ex.status = "PASSED"


(* ------------------- what is reported, what is collected --------------- *)
\* C34: a step that fails while an aggregation is open is reported with an
\* AssertionError carrying the text of its error, and the entry appended to
\* the collected list is the error itself; an aggregation that fails is
\* reported with an AssertionError carrying the text of its combined error,
\* and what is raised, or appended to the enclosing list, is the combined
\* error itself.
C34_GenericReportOriginalCollected ==
    [][ /\ (ExitingStep # 0 /\ last' = ExitingStep /\ aggStack # <<>>
              /\ objs'[ExitingStep].status = "FAILED") =>
              LET active == ActiveExc(objs[ExitingStep], pending)
              IN  /\ active.kind # "AssertionError"
                  /\ objs'[ExitingStep].report =
                        [kind |-> "AssertionError", msg |-> active.msg,
                         causes |-> <<>>, origin |-> active.origin]
                  /\ Last(aggStack').exceptions = Append(Last(aggStack).exceptions, active)
        /\ (ExitingAgg # 0 /\ last' = ExitingAgg /\ objs'[ExitingAgg].status = "FAILED") =>
              LET combined == objs'[ExitingAgg].active
              IN  /\ combined.kind = "AggregateError"
                  /\ objs'[ExitingAgg].report.kind = "AssertionError"
                  /\ objs'[ExitingAgg].report.msg = combined.msg
                  /\ objs'[ExitingAgg].report.causes = <<>>
                  /\ IF Len(aggStack) >= 2
                     THEN /\ pending' = NoErr
                          /\ Last(Last(aggStack').exceptions) = combined
                     ELSE pending' = combined ]_vars

\* an aggregation has raised its combined error after a step in it failed
\* with a ValueError: both were reported with an AssertionError, the cause in
\* the combined error is the ValueError
C34_Witness ==
    /\ last = 1 /\ objs[1].kind = "agg" /\ objs[1].status = "FAILED"
    /\ objs[1].report.kind = "AssertionError"
    /\ pending.kind = "AggregateError"
    /\ Len(objs) >= 2 /\ objs[2].kind = "step" /\ objs[2].status = "FAILED"
    /\ objs[2].report.kind = "AssertionError" /\ objs[2].active.kind = "ValueError"
    /\ pending.causes = <<objs[2].active>>


(* ------------------- when a step's exit raises by itself --------------- *)
\* the error a step has captured: the one its own tracer detected first,
\* else the one broadcast to it
Captured(x) == IF x.caught # NoErr THEN x.caught ELSE x.observed

C36_SuppressedBelowIntermediateStep ==
    /\ []((StepExited /\ ~Ex.propagate /\ aggStack # <<>> /\ Ex.exc = NoErr) =>
            (Ex.status = "PASSED" /\ Ex.raised = NoErr /\ pending = NoErr))
    /\ [][ (/\ ExitingStep # 0 /\ last' = ExitingStep
            /\ aggStack # <<>>
            /\ objs[ExitingStep].parent # 0
            /\ objs[objs[ExitingStep].parent].kind = "step"
            /\ ~objs[objs[ExitingStep].parent].propagate
            /\ ActiveExc(objs[ExitingStep], pending) # NoErr)
           => LET mid == objs[ExitingStep].parent
              IN  /\ objs'[ExitingStep].status = "FAILED"
                  /\ pending' = NoErr
                  /\ Last(aggStack').exceptions =
                       Append(Last(aggStack).exceptions, ActiveExc(objs[ExitingStep], pending))
                  /\ objs'[mid] = objs[mid] /\ objs'[mid].status = "OPEN" ]_vars

\* aggregation 1, plain step 2 in it, step 3 in step 2: step 3 failed with
\* e1, which is in the aggregation's list; the body of step 2 went on, raised
\* and handled e2 itself, and step 2 has exited PASSED
C36_Witness ==
    /\ Len(objs) = 3 /\ last = 2
    /\ objs[1].kind = "agg" /\ objs[1].status = "OPEN"
    /\ objs[2].kind = "step" /\ ~objs[2].propagate /\ objs[2].parent = 1
    /\ objs[3].kind = "step" /\ objs[3].parent = 2 /\ objs[3].status = "FAILED"
    /\ objs[3].exc.msg = "e1"
    /\ objs[2].handled.msg = "e2" /\ objs[2].status = "PASSED"
    /\ aggStack = <<[id |-> 1, title |-> Title(1), exceptions |-> <<objs[3].exc>>]>>
    /\ pending = NoErr


(* ------------------------ installing the wrappers ---------------------- *)
\* C37: the saved original step is never the wrapper; once
\* _monkey_patch_allure has run it is the library's own step and allure.step
\* is the wrapper, a further call changes neither, and every step that is
\* created wraps the library's step.
C37_SavedOriginalIsLibraryStep ==
    /\ [](/\ host.original # "wrapper"
          /\ host.patched => (host.original = "library" /\ host.step = "wrapper")
          /\ \A s \in DOMAIN objs : objs[s].status # "GONE" => objs[s].inner = "library")
    /\ [][ host.patched =>
              (host'.original = host.original /\ host'.step = host.step) ]_vars

\* the wrappers have been installed twice and a step created since wraps the
\* library's step
C37_Witness ==
    /\ host.calls = 2 /\ host.original = "library" /\ host.step = "wrapper"
    /\ Len(objs) = 1 /\ objs[1].kind = "step" /\ objs[1].status = "PASSED"
    /\ objs[1].inner = "library"


(* --------------------- captured state is per instance ------------------ *)
\* the closed scopes entered before s in the same body that failed
FailedSiblingsBefore(s) ==
    {i \in DOMAIN objs : i < s /\ objs[i].parent = objs[s].parent
                          /\ objs[i].status = "FAILED"}

\* C38: a step is entered with both captured slots empty whatever its
\* siblings and its parent hold; and a step during whose lifetime no error
\* was raised exits with both slots still empty, is PASSED and raises
\* nothing, also when a sibling entered before it has failed and its parent
\* or the open aggregation holds that sibling's error.
C38_CapturedStateDoesNotLeakToSiblings ==
    /\ []((StepExited /\ Ex.born = nerr) =>
            /\ Ex.caught = NoErr /\ Ex.observed = NoErr
            /\ Ex.status = "PASSED" /\ Ex.raised = NoErr)
    /\ [][ (EnteringStep # 0 /\ objs'[EnteringStep].kind = "step") =>
              /\ objs'[EnteringStep].caught = NoErr
              /\ objs'[EnteringStep].observed = NoErr
              /\ \A i \in DOMAIN objs : objs'[i] = objs[i] ]_vars

\* inside a propagating parent that holds the error of its first child, the
\* second child, propagating as well, ran a clean body and is PASSED
C38_Witness ==
    /\ Len(objs) = 3 /\ last = 3 /\ Ex.born = nerr
    /\ objs[1].kind = "step" /\ objs[1].propagate /\ objs[1].status = "OPEN"
    /\ objs[1].observed # NoErr
    /\ 2 \in FailedSiblingsBefore(3) /\ objs[2].active = objs[1].observed
    /\ objs[3].propagate /\ objs[3].status = "PASSED"
    /\ objs[3].caught = NoErr /\ objs[3].observed = NoErr

====
